---------------------------- MODULE Spec2Model ----------------------------
(***************************************************************************)
(* A model of hdbscanStar::hdbscanAlgorithm                                *)
(* (HDBSCAN-CPP/HdbscanStar/hdbscanAlgorithm.cpp).                         *)
(*                                                                         *)
(* Every static function of the class is modelled by its own               *)
(* specification.  Vectors are functions over 0..n-1, as the code indexes  *)
(* them.  A double is modelled by an integer: the code only compares       *)
(* distances and takes their maximum, so any order-preserving image of the *)
(* values behaves alike.  DBL_MAX stands for                               *)
(* std::numeric_limits<double>::max() and lies above every distance drawn. *)
(***************************************************************************)
EXTENDS Integers, Sequences, FiniteSets, TLC

VARIABLES
    pc,                   \* position of the running function
    returned,             \* the value the function returned
    \* calculateCoreDistances and constructMst
    length,               \* distances.size()
    distances,            \* the distance matrix (by value, read only)
    coreDistances,        \* constructMst: the parameter; calculateCoreDistances: the result
    selfEdges,            \* constructMst: the flag
    attachedPoints,       \* constructMst: bitSet attachedPoints
    nearestMRDNeighbors,  \* constructMst: std::vector<int>
    nearestMRDDistances,  \* constructMst: std::vector<double>
    currentPoint,         \* constructMst: int currentPoint
    numAttachedPoints,    \* constructMst: int numAttachedPoints
    graph,                \* constructMst: the arguments handed to undirectedGraph
    k,                    \* calculateCoreDistances: the parameter
    point,                \* calculateCoreDistances: the outer loop's index
    \* the caller's objects, which the functions receive copies of
    callerClusters,       \* the caller's std::vector<cluster>
    callerClusterLabels,  \* the caller's std::vector<int> of point labels
    callerParentCluster,  \* the caller's cluster, handed to createNewCluster as parent
    \* parameters (copies) shared by several functions
    clusters,             \* std::vector<cluster> clusters
    clusterLabels,        \* std::vector<int> clusterLabels
    \* propagateTree
    clustersToExamine,    \* std::map<int, cluster>
    addedToExaminationList, \* bitSet
    infiniteStability,    \* bool
    propagateCalls,       \* per label, the calls of cluster::propagate() so far
    \* calculateOutlierScores
    pointNoiseLevels,     \* the parameter
    pointLastClusters,    \* the parameter
    outlierScores,        \* std::vector<outlierScore>
    index,                \* the index i of the loop over points, or over constraints
    \* createNewCluster
    points,               \* std::set<int> points
    parentCluster,        \* cluster parentCluster (a copy)
    clusterLabel,         \* int clusterLabel
    edgeWeight,           \* double edgeWeight
    \* calculateNumConstraintsSatisfied
    newClusterLabels,     \* std::set<int>
    constraints,          \* std::vector<hdbscanConstraint>
    parents               \* std::vector<cluster> parents

matrixVars == <<length, distances, coreDistances>>

mstVars == <<selfEdges, attachedPoints, nearestMRDNeighbors, nearestMRDDistances,
             currentPoint, numAttachedPoints, graph>>

coreVars == <<k, point>>

callerVars == <<callerClusters, callerClusterLabels, callerParentCluster>>

copyVars == <<clusters, clusterLabels>>

propVars == <<clustersToExamine, addedToExaminationList, infiniteStability, propagateCalls>>

outlierVars == <<pointNoiseLevels, pointLastClusters, outlierScores, index>>

createVars == <<points, parentCluster, clusterLabel, edgeWeight>>

constraintVars == <<newClusterLabels, constraints, parents>>

clusterVars == <<callerVars, copyVars, propVars, outlierVars, createVars, constraintVars>>

vars == <<pc, returned, matrixVars, mstVars, coreVars, clusterVars>>

NoValue == "none"

\* The variables of the functions that are not running hold no value.
MatrixIdle == length = NoValue /\ distances = NoValue /\ coreDistances = NoValue

MstIdle ==
    /\ selfEdges = NoValue
    /\ attachedPoints = NoValue
    /\ nearestMRDNeighbors = NoValue
    /\ nearestMRDDistances = NoValue
    /\ currentPoint = NoValue
    /\ numAttachedPoints = NoValue
    /\ graph = NoValue

CoreIdle == k = NoValue /\ point = NoValue

CallerIdle ==
    /\ callerClusters = NoValue
    /\ callerClusterLabels = NoValue
    /\ callerParentCluster = NoValue

CopyIdle == clusters = NoValue /\ clusterLabels = NoValue

PropIdle ==
    /\ clustersToExamine = NoValue
    /\ addedToExaminationList = NoValue
    /\ infiniteStability = NoValue
    /\ propagateCalls = NoValue

OutlierIdle ==
    /\ pointNoiseLevels = NoValue
    /\ pointLastClusters = NoValue
    /\ outlierScores = NoValue
    /\ index = NoValue

CreateIdle ==
    /\ points = NoValue
    /\ parentCluster = NoValue
    /\ clusterLabel = NoValue
    /\ edgeWeight = NoValue

ConstraintIdle == newClusterLabels = NoValue /\ constraints = NoValue /\ parents = NoValue

ClusterIdle ==
    CallerIdle /\ CopyIdle /\ PropIdle /\ OutlierIdle /\ CreateIdle /\ ConstraintIdle

(***************************************************************************)
(* Bounds of the model.                                                    *)
(***************************************************************************)
MaxN == 4             \* largest number of points
MaxDist == 1          \* distances and core distances are drawn from 0..MaxDist
MaxFreeEntries == 6   \* most independent entries of a distance matrix drawn
MaxRowDist == 2       \* calculateCoreDistances: distances are drawn from 0..MaxRowDist
MaxClusters == 3      \* propagateTree: most clusters of a cluster list
MaxPropagateCalls == 4 \* propagateTree: most calls of propagate() followed
MaxPoints == 2        \* calculateOutlierScores, createNewCluster: most points
MaxLevel == 2         \* levels and edge weights are drawn from 0..MaxLevel
MaxConstraints == 2   \* calculateNumConstraintsSatisfied: most constraints

DBL_MAX == 1000

Dist == 0..MaxDist

Max2(a, b) == IF a > b THEN a ELSE b

(***************************************************************************)
(* Input distance matrices: n x n, diagonal unused (held at 0).  Every     *)
(* matrix, symmetric or not, while its n(n-1) off-diagonal entries number  *)
(* at most MaxFreeEntries; beyond that the symmetric ones, while their     *)
(* n(n-1)/2 entries do.                                                    *)
(***************************************************************************)
IsSymmetric(n, d) == \A i, j \in 0..(n - 1) : d[i][j] = d[j][i]

ZeroDiagonal(n, d) == \A i \in 0..(n - 1) : d[i][i] = 0

AllMatrices(n, D) ==
    {d \in [0..(n - 1) -> [0..(n - 1) -> D \cup {0}]] : ZeroDiagonal(n, d)}

Pairs(n) == {p \in (0..(n - 1)) \X (0..(n - 1)) : p[1] < p[2]}

SymmetricMatrices(n, D) ==
    {[i \in 0..(n - 1) |-> [j \in 0..(n - 1) |->
          IF i = j THEN 0 ELSE IF i < j THEN u[<<i, j>>] ELSE u[<<j, i>>]]]
        : u \in [Pairs(n) -> D]}

Matrices(n, D) ==
    IF n * (n - 1) <= MaxFreeEntries THEN AllMatrices(n, D)
    ELSE IF n * (n - 1) <= 2 * MaxFreeEntries THEN SymmetricMatrices(n, D)
    ELSE {}

(***************************************************************************)
(* constructMst, lines 72-146.                                             *)
(***************************************************************************)

\* A variant of MutualReachability that leaves out the neighbor's core distance.
MutantMutualReachability(d, core, cur, neighbor) == Max2(d[cur][neighbor], core[cur])

\* lines 103-109: the mutual reachability distance of currentPoint and neighbor
MutualReachability(d, core, cur, neighbor) ==
    Max2(Max2(d[cur][neighbor], core[cur]), core[neighbor])

\* A variant of ReplacesNearest that keeps the first of several equal distances.
MutantReplacesNearest(recorded, best) == recorded < best

\* lines 117-121: does the neighbor's recorded distance replace the best so far?
ReplacesNearest(recorded, best) == recorded <= best

\* A variant of ImprovesRecorded that always records the distance to currentPoint.
MutantImprovesRecorded(mrd, recorded) == TRUE

\* lines 111-115: does the distance just computed replace the recorded one?
ImprovesRecorded(mrd, recorded) == mrd < recorded

\* lines 97-123: the for loop over neighbor, from `neighbor` on.  s carries
\* nearestMRDDistances, nearestMRDNeighbors, nearestMRDDistance, nearestMRDPoint.
RECURSIVE ScanNeighbors(_, _)
ScanNeighbors(neighbor, s) ==
    IF neighbor >= length THEN s
    ELSE IF currentPoint = neighbor \/ neighbor \in attachedPoints
         THEN ScanNeighbors(neighbor + 1, s)
    ELSE LET mrd == MutualReachability(distances, coreDistances, currentPoint, neighbor)
             upd == ImprovesRecorded(mrd, s.dists[neighbor])
             dists1 == IF upd THEN [s.dists EXCEPT ![neighbor] = mrd] ELSE s.dists
             nbrs1 == IF upd THEN [s.nbrs EXCEPT ![neighbor] = currentPoint] ELSE s.nbrs
             take == ReplacesNearest(dists1[neighbor], s.bestDistance)
         IN ScanNeighbors(neighbor + 1,
                [dists |-> dists1,
                 nbrs |-> nbrs1,
                 bestDistance |-> IF take THEN dists1[neighbor] ELSE s.bestDistance,
                 bestPoint |-> IF take THEN neighbor ELSE s.bestPoint])

\* lines 74-90: the state before the while loop
Capacity(n, self) == n - 1 + (IF self THEN n ELSE 0)

MstInit ==
    /\ \E n \in 2..MaxN : \E d \in Matrices(n, Dist) :
          \E core \in [0..(n - 1) -> Dist] : \E self \in BOOLEAN :
            /\ length = n
            /\ distances = d
            /\ coreDistances = core
            /\ selfEdges = self
            /\ nearestMRDNeighbors = [i \in 0..(Capacity(n, self) - 1) |-> 0]
            /\ nearestMRDDistances =
                 [i \in 0..(Capacity(n, self) - 1) |-> IF i < n - 1 THEN DBL_MAX ELSE 0]
            /\ currentPoint = n - 1
            /\ numAttachedPoints = 1
            /\ attachedPoints = {n - 1}
    /\ graph = NoValue
    /\ returned = NoValue
    /\ pc = "mstLoop"
    /\ CoreIdle /\ ClusterIdle

\* lines 92-127: one iteration of the while loop
MstIteration ==
    /\ pc = "mstLoop"
    /\ numAttachedPoints < length
    /\ LET s == ScanNeighbors(0, [dists |-> nearestMRDDistances,
                                  nbrs |-> nearestMRDNeighbors,
                                  bestDistance |-> DBL_MAX,
                                  bestPoint |-> -1])
       IN /\ nearestMRDDistances' = s.dists
          /\ nearestMRDNeighbors' = s.nbrs
          /\ IF s.bestPoint = -1
             THEN \* attachedPoints.set(-1): outside the bit set
                  /\ pc' = "mstFault"
                  /\ UNCHANGED <<attachedPoints, numAttachedPoints, currentPoint>>
             ELSE /\ attachedPoints' = attachedPoints \cup {s.bestPoint}
                  /\ numAttachedPoints' = numAttachedPoints + 1
                  /\ currentPoint' = s.bestPoint
                  /\ pc' = pc
    /\ UNCHANGED <<length, distances, coreDistances, selfEdges, graph, returned,
                   coreVars, clusterVars>>

\* lines 128-144: the loop has ended; the arrays are handed to undirectedGraph
MstFinish ==
    /\ pc = "mstLoop"
    /\ ~(numAttachedPoints < length)
    /\ LET cap == Capacity(length, selfEdges)
           isSelf(i) == selfEdges /\ i >= length - 1
           vertex(i) == i - (length - 1)
       IN /\ nearestMRDNeighbors' =
                [i \in 0..(cap - 1) |-> IF isSelf(i) THEN vertex(i)
                                         ELSE nearestMRDNeighbors[i]]
          /\ nearestMRDDistances' =
                [i \in 0..(cap - 1) |-> IF isSelf(i) THEN coreDistances[vertex(i)]
                                         ELSE nearestMRDDistances[i]]
          /\ graph' = [numVertices |-> length,
                       verticesA |-> nearestMRDNeighbors',
                       verticesB |-> [i \in 0..(cap - 1) |->
                                        IF isSelf(i) THEN vertex(i) ELSE i],
                       edgeWeights |-> nearestMRDDistances']
    /\ returned' = graph'
    /\ pc' = "mstDone"
    /\ UNCHANGED <<length, distances, coreDistances, selfEdges, attachedPoints,
                   currentPoint, numAttachedPoints, coreVars, clusterVars>>

MstNext == MstIteration \/ MstFinish

SpecMst == MstInit /\ [][MstNext]_vars

(***************************************************************************)
(* calculateCoreDistances, lines 24-71.                                    *)
(***************************************************************************)
RowDist == 0..MaxRowDist

\* lines 51-56: the position at which `distance` fits into the sorted kNNDistances
RECURSIVE NeighborIndex(_, _, _)
NeighborIndex(kNNDistances, distance, neighborIndex) ==
    IF neighborIndex >= 1 /\ distance < kNNDistances[neighborIndex - 1]
    THEN NeighborIndex(kNNDistances, distance, neighborIndex - 1)
    ELSE neighborIndex

\* A variant of InsertDistance that stores without shifting the larger elements.
MutantInsertDistance(kNNDistances, numNeighbors, distance) ==
    LET neighborIndex == NeighborIndex(kNNDistances, distance, numNeighbors)
    IN IF neighborIndex < numNeighbors
       THEN [kNNDistances EXCEPT ![neighborIndex] = distance]
       ELSE kNNDistances

\* lines 58-65: make room at neighborIndex (the last element falls off) and store
InsertDistance(kNNDistances, numNeighbors, distance) ==
    LET neighborIndex == NeighborIndex(kNNDistances, distance, numNeighbors)
    IN IF neighborIndex < numNeighbors
       THEN [shiftIndex \in 0..(numNeighbors - 1) |->
                IF shiftIndex > neighborIndex THEN kNNDistances[shiftIndex - 1]
                ELSE IF shiftIndex = neighborIndex THEN distance
                ELSE kNNDistances[shiftIndex]]
       ELSE kNNDistances

\* lines 46-67: the for loop over neighbor, from `neighbor` on
RECURSIVE ScanRow(_, _, _)
ScanRow(neighbor, kNNDistances, numNeighbors) ==
    IF neighbor >= length THEN kNNDistances
    ELSE IF point = neighbor THEN ScanRow(neighbor + 1, kNNDistances, numNeighbors)
    ELSE ScanRow(neighbor + 1,
                 InsertDistance(kNNDistances, numNeighbors, distances[point][neighbor]),
                 numNeighbors)

\* lines 24-29
CoreInit ==
    /\ \E n \in 1..MaxN : \E d \in Matrices(n, RowDist) : \E kk \in 1..n :
          /\ length = n
          /\ distances = d
          /\ k = kk
          /\ coreDistances = [p \in 0..(n - 1) |-> 0]
    /\ point = 0
    /\ pc = "coreStart"
    /\ returned = NoValue
    /\ MstIdle /\ ClusterIdle

\* lines 30-37: k == 1, every core distance is set to 0 and returned
CoreTrivial ==
    /\ pc = "coreStart"
    /\ k = 1
    /\ coreDistances' = [p \in 0..(length - 1) |-> 0]
    /\ point' = length
    /\ pc' = "coreDone"
    /\ returned' = coreDistances'
    /\ UNCHANGED <<length, distances, k, mstVars, clusterVars>>

\* lines 38-69: one iteration of the loop over point
CorePoint ==
    /\ pc = "coreStart"
    /\ k # 1
    /\ point < length
    /\ LET numNeighbors == k - 1
           kNNDistances == ScanRow(0, [i \in 0..(numNeighbors - 1) |-> DBL_MAX],
                                   numNeighbors)
       IN coreDistances' = [coreDistances EXCEPT ![point] = kNNDistances[numNeighbors - 1]]
    /\ point' = point + 1
    /\ UNCHANGED <<pc, returned, length, distances, k, mstVars, clusterVars>>

\* line 70
CoreReturn ==
    /\ pc = "coreStart"
    /\ k # 1
    /\ ~(point < length)
    /\ pc' = "coreDone"
    /\ returned' = coreDistances
    /\ UNCHANGED <<matrixVars, coreVars, mstVars, clusterVars>>

CoreNext == CoreTrivial \/ CorePoint \/ CoreReturn

SpecCore == CoreInit /\ [][CoreNext]_vars

\* The distances from p to the other points that lie below v, and at or below v.
OthersBelow(p, v) == {q \in (0..(length - 1)) \ {p} : distances[p][q] < v}

OthersAtMost(p, v) == {q \in (0..(length - 1)) \ {p} : distances[p][q] <= v}

\* C2: calculateCoreDistances returns for each point p the (k-1)-th smallest of
\* the distances from p to the other N-1 points, duplicates counted, and 0 for
\* every point when k = 1.
C2_CoreIsKthSmallest ==
    pc = "coreDone" =>
        \A p \in 0..(length - 1) :
            IF k = 1 THEN returned[p] = 0
            ELSE /\ \E q \in (0..(length - 1)) \ {p} : distances[p][q] = returned[p]
                 /\ Cardinality(OthersBelow(p, returned[p])) <= k - 2
                 /\ Cardinality(OthersAtMost(p, returned[p])) >= k - 1

C2_Witness ==
    /\ pc = "coreDone"
    /\ length = 4
    /\ k = 3
    /\ \E p \in 0..(length - 1) :
          /\ Cardinality({distances[p][q] : q \in (0..(length - 1)) \ {p}}) = 3
          /\ Cardinality(OthersBelow(p, returned[p])) = 1


(***************************************************************************)
(* propagateTree, lines 155-200.                                           *)
(*                                                                         *)
(* A cluster list holds the clusters labelled 1..n.  Parent is the label   *)
(* of the cluster the Parent pointer points to, or NULL; a parent is       *)
(* created before its children, so its label is the smaller one.           *)
(***************************************************************************)
NULL == 0

Stabilities == {"finite", "infinity"}

Range(f) == {f[x] : x \in DOMAIN f}

ClusterLists(n) ==
    {[l \in 1..n |-> [Label |-> l,
                      Parent |-> par[l],
                      HasChildren |-> \E c \in 1..n : par[c] = l,
                      Stability |-> stab[l]]]
        : par \in {f \in [1..n -> 0..n] : \A l \in 1..n : f[l] < l},
          stab \in [1..n -> Stabilities]}

\* lines 176-177: currentKeyValue is clustersToExamine.end(); reading
\* currentKeyValue->first and ->second reads past the map's elements.  What
\* is read is not defined: any key, and any cluster value.
EndDereference == (0..Cardinality(DOMAIN clusters)) \X Range(clusters)

\* std::map::erase(key)
MapErase(map, key) == [x \in (DOMAIN map) \ {key} |-> map[x]]

\* std::map::insert({key, value}): no effect when the key is present
MapInsert(map, key, value) ==
    IF key \in DOMAIN map THEN map
    ELSE [x \in (DOMAIN map) \cup {key} |-> IF x = key THEN value ELSE map[x]]

EmptyMap == [x \in {} |-> NoValue]

\* lines 162-171: the leaves of `list`, from label l on, put into the map
RECURSIVE SeedLeaves(_, _, _)
SeedLeaves(list, l, map) ==
    IF l \notin DOMAIN list THEN map
    ELSE IF ~list[l].HasChildren
         THEN SeedLeaves(list, l + 1, MapInsert(MapErase(map, list[l].Label), list[l].Label, list[l]))
         ELSE SeedLeaves(list, l + 1, map)

TotalCalls == LET Sum[l \in 0..MaxClusters] ==
                     IF l = 0 THEN 0
                     ELSE Sum[l - 1] + (IF l \in DOMAIN propagateCalls THEN propagateCalls[l] ELSE 0)
              IN Sum[MaxClusters]

\* lines 155-159
PropInit ==
    /\ \E n \in 1..MaxClusters : \E list \in ClusterLists(n) :
          /\ callerClusters = list
          /\ clusters = list
          /\ propagateCalls = [l \in 1..n |-> 0]
    /\ clustersToExamine = EmptyMap
    /\ addedToExaminationList = {}
    /\ infiniteStability = FALSE
    /\ returned = NoValue
    /\ pc = "propSeed"
    /\ MatrixIdle /\ MstIdle /\ CoreIdle
    /\ callerClusterLabels = NoValue /\ callerParentCluster = NoValue
    /\ clusterLabels = NoValue
    /\ OutlierIdle /\ CreateIdle /\ ConstraintIdle

propOthers == <<matrixVars, mstVars, coreVars, callerVars, clusterLabels,
                outlierVars, createVars, constraintVars>>

\* lines 162-171: every leaf is put on the examination list
PropSeed ==
    /\ pc = "propSeed"
    /\ clustersToExamine' = SeedLeaves(clusters, 1, clustersToExamine)
    /\ addedToExaminationList' =
          addedToExaminationList \cup {c.Label : c \in {x \in Range(clusters) : ~x.HasChildren}}
    /\ pc' = "propLoop"
    /\ UNCHANGED <<returned, clusters, infiniteStability, propagateCalls, propOthers>>

\* lines 174-197: one iteration of the while loop
PropExamine ==
    /\ pc = "propLoop"
    /\ DOMAIN clustersToExamine # {}
    /\ TotalCalls < MaxPropagateCalls
    /\ \/ \E read \in EndDereference :
            LET key == read[1]
                currentCluster == read[2]
                erased == MapErase(clustersToExamine, key)
                label == currentCluster.Parent
                enqueue == currentCluster.Parent # NULL /\ label \notin addedToExaminationList
            IN /\ propagateCalls' =
                     [propagateCalls EXCEPT ![currentCluster.Label] = @ + 1]
               /\ infiniteStability' =
                     (infiniteStability \/ currentCluster.Stability = "infinity")
               /\ clustersToExamine' =
                     IF enqueue
                     THEN MapInsert(MapErase(erased, label), label, callerClusters[label])
                     ELSE erased
               /\ addedToExaminationList' =
                     IF enqueue THEN addedToExaminationList \cup {label}
                     ELSE addedToExaminationList
               /\ pc' = pc
       \/ \* the read past the end faults
          /\ pc' = "propFault"
          /\ UNCHANGED propVars
    /\ UNCHANGED <<returned, clusters, propOthers>>

\* line 199
PropReturn ==
    /\ pc = "propLoop"
    /\ DOMAIN clustersToExamine = {}
    /\ returned' = infiniteStability
    /\ pc' = "propDone"
    /\ UNCHANGED <<clusters, propVars, propOthers>>

PropNext == PropSeed \/ PropExamine \/ PropReturn

SpecProp == PropInit /\ [][PropNext]_vars

\* C5: one call of propagateTree ends with an empty work queue having called
\* propagate() on every cluster exactly once: no cluster is processed twice
\* and none is skipped.
C5_EveryClusterOnce ==
    /\ pc \in {"propLoop", "propDone"} =>
          \A l \in DOMAIN propagateCalls : propagateCalls[l] <= 1
    /\ pc = "propDone" =>
          /\ DOMAIN clustersToExamine = {}
          /\ \A l \in DOMAIN propagateCalls : propagateCalls[l] = 1

\* C6: propagateTree returns true if and only if at least one cluster of the
\* list has Stability equal to positive infinity.
C6_ReturnsInfiniteStability ==
    pc = "propDone" =>
        (returned = TRUE <=> \E c \in Range(callerClusters) : c.Stability = "infinity")

(***************************************************************************)
(* calculateOutlierScores, lines 211-236.                                  *)
(*                                                                         *)
(* A score is a quotient of doubles; it is kept as a pair <<num, den>>,    *)
(* den > 0, and two scores are compared by cross-multiplication.           *)
(* outlierScores is a sequence: push_back is Append.                       *)
(***************************************************************************)
Levels == 0..MaxLevel

\* lines 225-228: score = 0, or 1 - (epsilonMax / epsilon) when epsilon != 0
Score(epsilonMax, epsilon) ==
    IF epsilon # 0 THEN <<epsilon - epsilonMax, epsilon>> ELSE <<0, 1>>

ScoreLess(a, b) == a[1] * b[2] < b[1] * a[2]

ScoreEqual(a, b) == a[1] * b[2] = b[1] * a[2]

\* outlierScore(score, coreDistance, id)
OutlierScore(score, coreDistance, id) ==
    [score |-> score, coreDistance |-> coreDistance, id |-> id]

\* outlierScore(): the record std::vector<outlierScore>(numPoints) is filled with
DefaultOutlierScore == OutlierScore(<<0, 1>>, 0, 0)

\* outlierScore::operator<, the order std::sort sorts by
OutlierScoreBefore(a, b) ==
    \/ ScoreLess(b.score, a.score)
    \/ /\ ScoreEqual(a.score, b.score)
       /\ \/ a.coreDistance > b.coreDistance
          \/ a.coreDistance = b.coreDistance /\ a.id > b.id

\* line 233: std::sort(begin, end), by insertion
RECURSIVE InsertSorted(_, _)
InsertSorted(sorted, x) ==
    IF sorted = << >> THEN <<x>>
    ELSE IF OutlierScoreBefore(x, Head(sorted)) THEN <<x>> \o sorted
    ELSE <<Head(sorted)>> \o InsertSorted(Tail(sorted), x)

RECURSIVE SortScores(_)
SortScores(seq) ==
    IF seq = << >> THEN << >>
    ELSE InsertSorted(SortScores(Tail(seq)), Head(seq))

PropagatedLists(n) ==
    {[l \in 1..n |-> [Label |-> l, PropagatedLowestChildDeathLevel |-> death[l]]]
        : death \in [1..n -> Levels]}

\* lines 211-218
OutlierInit ==
    /\ \E n \in 1..MaxClusters : \E list \in PropagatedLists(n) :
       \E numPoints \in 1..MaxPoints :
       \E noise \in [0..(numPoints - 1) -> Levels] :
       \E last \in [0..(numPoints - 1) -> 1..n] :
       \E core \in [0..(numPoints - 1) -> Dist] :
          /\ callerClusters = list
          /\ clusters = list
          /\ pointNoiseLevels = noise
          /\ pointLastClusters = last
          /\ coreDistances = core
          /\ outlierScores = [j \in 1..numPoints |-> DefaultOutlierScore]
    /\ index = 0
    /\ returned = NoValue
    /\ pc = "outlierLoop"
    /\ length = NoValue /\ distances = NoValue
    /\ MstIdle /\ CoreIdle
    /\ callerClusterLabels = NoValue /\ callerParentCluster = NoValue
    /\ clusterLabels = NoValue
    /\ PropIdle /\ CreateIdle /\ ConstraintIdle

outlierOthers == <<length, distances, mstVars, coreVars, callerVars, copyVars,
                   propVars, createVars, constraintVars>>

NumPoints == Cardinality(DOMAIN pointNoiseLevels)

\* lines 221-231: one iteration of the loop over the points
OutlierPoint ==
    /\ pc = "outlierLoop"
    /\ index < NumPoints
    /\ LET epsilonMax == clusters[pointLastClusters[index]].PropagatedLowestChildDeathLevel
           epsilon == pointNoiseLevels[index]
       IN outlierScores' =
            Append(outlierScores, OutlierScore(Score(epsilonMax, epsilon), coreDistances[index], index))
    /\ index' = index + 1
    /\ UNCHANGED <<pc, returned, coreDistances, pointNoiseLevels, pointLastClusters,
                   outlierOthers>>

\* lines 232-235
OutlierSort ==
    /\ pc = "outlierLoop"
    /\ ~(index < NumPoints)
    /\ outlierScores' = SortScores(outlierScores)
    /\ returned' = outlierScores'
    /\ pc' = "outlierDone"
    /\ UNCHANGED <<index, coreDistances, pointNoiseLevels, pointLastClusters, outlierOthers>>

OutlierNext == OutlierPoint \/ OutlierSort

SpecOutlier == OutlierInit /\ [][OutlierNext]_vars

\* C3: calculateOutlierScores returns exactly N records, one per point index,
\* in descending order of score; the record of a point whose noise level is 0
\* has score 0, that of any other point has score
\* 1 - (PropagatedLowestChildDeathLevel of its last cluster / its noise level).
C3_OneScorePerPoint ==
    pc = "outlierDone" =>
        /\ Len(returned) = NumPoints
        /\ \A p \in 0..(NumPoints - 1) :
              \E j \in 1..Len(returned) :
                 /\ returned[j].id = p
                 /\ \A j2 \in 1..Len(returned) : returned[j2].id = p => j2 = j
                 /\ LET death == callerClusters[pointLastClusters[p]].PropagatedLowestChildDeathLevel
                        noise == pointNoiseLevels[p]
                    IN IF noise = 0 THEN ScoreEqual(returned[j].score, <<0, 1>>)
                       ELSE ScoreEqual(returned[j].score, <<noise - death, noise>>)
        /\ \A j \in 1..(Len(returned) - 1) :
              ~ScoreLess(returned[j].score, returned[j + 1].score)

(***************************************************************************)
(* createNewCluster, lines 248-268.                                        *)
(*                                                                         *)
(* clusterLabels and parentCluster are passed by value: the function works *)
(* on its own copies, and the caller's objects are other objects.          *)
(***************************************************************************)
\* cluster::detachPoints(numPoints, level): the cluster loses numPoints points at level
DetachPoints(c, numPoints, level) ==
    [c EXCEPT !.NumPoints = @ - numPoints,
              !.Detached = Append(@, <<numPoints, level>>)]

\* cluster::addPointsToVirtualChildCluster(points)
AddPointsToVirtualChildCluster(c, pts) ==
    [c EXCEPT !.VirtualChildCluster = @ \cup pts]

\* cluster(label, parent, birthLevel, numPoints)
NewCluster(label, parent, birthLevel, numPoints) ==
    [Label |-> label, Parent |-> parent.Label, BirthLevel |-> birthLevel,
     NumPoints |-> numPoints, Detached |-> << >>, VirtualChildCluster |-> {}]

\* lines 255-260: the loop over points
Relabel(labels, pts, label) ==
    [p \in DOMAIN labels |-> IF p \in pts THEN label ELSE labels[p]]

\* lines 248-253
CreateInit ==
    /\ \E n \in 1..MaxPoints : \E labels \in [0..(n - 1) -> 0..MaxClusters] :
       \E pts \in (SUBSET (0..(n - 1))) \ {{}} : \E label \in 0..MaxClusters :
       \E weight \in Levels : \E birth \in Levels :
          LET parent == [Label |-> 1, Parent |-> NULL, BirthLevel |-> birth,
                         NumPoints |-> n, Detached |-> << >>,
                         VirtualChildCluster |-> {}]
          IN /\ callerClusterLabels = labels
             /\ clusterLabels = labels
             /\ callerParentCluster = parent
             /\ parentCluster = parent
             /\ points = pts
             /\ clusterLabel = label
             /\ edgeWeight = weight
    /\ returned = NoValue
    /\ pc = "createRelabel"
    /\ MatrixIdle /\ MstIdle /\ CoreIdle
    /\ callerClusters = NoValue /\ clusters = NoValue
    /\ PropIdle /\ OutlierIdle /\ ConstraintIdle

createOthers == <<matrixVars, mstVars, coreVars, callerVars, clusters,
                  propVars, outlierVars, constraintVars>>

\* lines 255-260: the copy of the label array is relabelled
CreateRelabel ==
    /\ pc = "createRelabel"
    /\ clusterLabels' = Relabel(clusterLabels, points, clusterLabel)
    /\ pc' = "createDetach"
    /\ UNCHANGED <<returned, createVars, createOthers>>

\* line 262: the copy of the parent is told of the loss
CreateDetach ==
    /\ pc = "createDetach"
    /\ parentCluster' = DetachPoints(parentCluster, Cardinality(points), edgeWeight)
    /\ pc' = "createReturn"
    /\ UNCHANGED <<returned, clusterLabels, points, clusterLabel, edgeWeight, createOthers>>

\* lines 264-268.  With clusterLabel 0 control runs off the end of a function
\* that returns a cluster: what the caller receives is not defined.
CreateReturn ==
    /\ pc = "createReturn"
    /\ \/ /\ clusterLabel # 0
          /\ returned' = NewCluster(clusterLabel, parentCluster, edgeWeight, Cardinality(points))
          /\ pc' = "createDone"
          /\ UNCHANGED parentCluster
       \/ /\ clusterLabel = 0
          /\ parentCluster' = AddPointsToVirtualChildCluster(parentCluster, points)
          /\ \/ /\ returned' \in {NewCluster(-1, parentCluster, 0, 0), parentCluster'}
                /\ pc' = "createDone"
             \/ /\ returned' = NoValue
                /\ pc' = "createFault"
    /\ UNCHANGED <<clusterLabels, points, clusterLabel, edgeWeight, createOthers>>

CreateNext == CreateRelabel \/ CreateDetach \/ CreateReturn

SpecCreate == CreateInit /\ [][CreateNext]_vars

\* C4: after createNewCluster returns, the caller's label array holds
\* clusterLabel at every index in points and is unchanged at every other index
\* (where the function's copy still holds the label at the call); the caller's
\* parent cluster has been told it lost |points| points at edgeWeight; and with
\* clusterLabel 0 the point set is the parent's virtual child cluster.
C4_CallerSeesTheSplit ==
    pc = "createDone" =>
        /\ \A p \in DOMAIN callerClusterLabels :
              callerClusterLabels[p] = IF p \in points THEN clusterLabel ELSE clusterLabels[p]
        /\ callerParentCluster.Detached = <<<<Cardinality(points), edgeWeight>>>>
        /\ clusterLabel = 0 => callerParentCluster.VirtualChildCluster = points

(***************************************************************************)
(* calculateNumConstraintsSatisfied, lines 277-340.                        *)
(*                                                                         *)
(* clusters is passed by value: the function updates its own copy.  The    *)
(* Parent pointers of the copies still point to the caller's clusters.     *)
(***************************************************************************)
ConstraintTypes == {"mustLink", "cannotLink"}

\* hdbscanConstraint(pointA, pointB, type), over the points 0..n-1
Constraints(n) ==
    {[type |-> t, pointA |-> a, pointB |-> b]
        : t \in ConstraintTypes,
          a \in 0..(n - 1),
          b \in 0..(n - 1)} \ {c \in [type : ConstraintTypes,
                                      pointA : 0..(n - 1),
                                      pointB : 0..(n - 1)] : c.pointA = c.pointB}

\* cluster::addConstraintsSatisfied(n)
AddConstraintsSatisfied(c, n) ==
    [c EXCEPT !.NumConstraintsSatisfied = @ + n]

\* The cluster lists of calculateNumConstraintsSatisfied: the points that have
\* label 0 are the virtual child cluster of cluster 1.
ConstraintClusterLists(n, labels) ==
    {[l \in 1..n |-> [Label |-> l,
                      Parent |-> par[l],
                      NumConstraintsSatisfied |-> 0,
                      VirtualChildCluster |->
                          IF l = 1 THEN {p \in DOMAIN labels : labels[p] = 0} ELSE {},
                      VirtualChildConstraintsSatisfied |-> 0]]
        : par \in {f \in [1..n -> 0..n] : \A l \in 1..n : f[l] < l}}

\* std::find(newClusterLabels.begin(), newClusterLabels.end(), label) != end()
IsNewLabel(label) == label \in newClusterLabels

\* lines 286-293: the distinct parents of the new clusters, from label l on
RECURSIVE CollectParents(_, _)
CollectParents(l, found) ==
    IF l > Cardinality(DOMAIN clusters) THEN found
    ELSE IF /\ l \in newClusterLabels
            /\ clusters[l].Parent # NULL
            /\ \A j \in DOMAIN found : found[j].Label # clusters[l].Parent
         THEN CollectParents(l + 1, Append(found, callerClusters[clusters[l].Parent]))
         ELSE CollectParents(l + 1, found)

\* line 309: the condition under which the cluster of B is credited
CreditsB(labelA, labelB) == labelB # 0 /\ IsNewLabel(labelA)

\* line 307: the condition under which the cluster of A is credited
CreditsA(labelA, labelB) == labelA # 0 /\ IsNewLabel(labelA)

\* lines 297-333: the effect of one constraint on the function's cluster list.
\* The loops over parents (lines 313-331) update a copy of each element of
\* parents, which is dropped at the end of the iteration.
ApplyConstraint(list, constraint) ==
    LET labelA == clusterLabels[constraint.pointA]
        labelB == clusterLabels[constraint.pointB]
    IN IF constraint.type = "mustLink" /\ labelA = labelB
       THEN IF IsNewLabel(labelA)
            THEN [list EXCEPT ![labelA] = AddConstraintsSatisfied(@, 2)]
            ELSE list
       ELSE IF constraint.type = "cannotLink" /\ (labelA # labelB \/ labelA = 0)
       THEN LET list1 == IF CreditsA(labelA, labelB)
                         THEN [list EXCEPT ![labelA] = AddConstraintsSatisfied(@, 1)]
                         ELSE list
            IN IF CreditsB(labelA, labelB)
               THEN [list1 EXCEPT ![labelB] = AddConstraintsSatisfied(@, 1)]
               ELSE list1
       ELSE list

\* lines 277-281
ConstraintInit ==
    /\ \E n \in 2..MaxClusters :
       \E labels \in [0..(MaxPoints - 1) -> 0..n] :
       \E list \in ConstraintClusterLists(n, labels) :
       \E new \in SUBSET (1..n) :
       \E m \in 0..MaxConstraints :
       \E cs \in [0..(m - 1) -> Constraints(MaxPoints)] :
          /\ callerClusters = list
          /\ clusters = list
          /\ callerClusterLabels = labels
          /\ clusterLabels = labels
          /\ newClusterLabels = new
          /\ constraints = cs
    /\ parents = << >>
    /\ index = 0
    /\ returned = NoValue
    /\ pc = "constraintStart"
    /\ MatrixIdle /\ MstIdle /\ CoreIdle
    /\ callerParentCluster = NoValue
    /\ PropIdle /\ CreateIdle
    /\ pointNoiseLevels = NoValue /\ pointLastClusters = NoValue /\ outlierScores = NoValue

constraintOthers == <<returned, matrixVars, mstVars, coreVars, callerVars, clusterLabels,
                      propVars, createVars, pointNoiseLevels, pointLastClusters,
                      outlierScores, newClusterLabels, constraints>>

NumConstraints == Cardinality(DOMAIN constraints)

\* lines 283-284: no constraints, nothing to do
ConstraintNone ==
    /\ pc = "constraintStart"
    /\ NumConstraints = 0
    /\ pc' = "constraintDone"
    /\ UNCHANGED <<clusters, parents, index, constraintOthers>>

\* lines 286-293
ConstraintParents ==
    /\ pc = "constraintStart"
    /\ NumConstraints # 0
    /\ parents' = CollectParents(1, << >>)
    /\ pc' = "constraintLoop"
    /\ UNCHANGED <<clusters, index, constraintOthers>>

\* lines 295-334: one iteration of the loop over the constraints
ConstraintStep ==
    /\ pc = "constraintLoop"
    /\ index < NumConstraints
    /\ clusters' = ApplyConstraint(clusters, constraints[index])
    /\ index' = index + 1
    /\ UNCHANGED <<pc, parents, constraintOthers>>

\* lines 336-339: releaseVirtualChildCluster() is called on a copy of each parent
ConstraintRelease ==
    /\ pc = "constraintLoop"
    /\ ~(index < NumConstraints)
    /\ pc' = "constraintDone"
    /\ UNCHANGED <<clusters, parents, index, constraintOthers>>

ConstraintNext ==
    ConstraintNone \/ ConstraintParents \/ ConstraintStep \/ ConstraintRelease

SpecConstraint == ConstraintInit /\ [][ConstraintNext]_vars

\* The constraint the next step handles, and the labels of its endpoints.
AtConstraint == pc = "constraintLoop" /\ index < NumConstraints

LabelA == clusterLabels[constraints[index].pointA]

LabelB == clusterLabels[constraints[index].pointB]

\* C7: a must-link constraint whose endpoints share a label L that is one of
\* the new cluster labels increases the satisfied-constraint counter of cluster
\* L in the caller's cluster list by exactly 2; a must-link constraint whose
\* endpoints have different labels, or share a label that is not new, changes
\* no counter.
C7_MustLinkCountsTwo ==
    [][(AtConstraint /\ index' = index + 1 /\ constraints[index].type = "mustLink") =>
          \A l \in DOMAIN callerClusters :
             callerClusters'[l].NumConstraintsSatisfied =
                callerClusters[l].NumConstraintsSatisfied
                  + (IF LabelA = LabelB /\ l = LabelA /\ LabelA \in newClusterLabels
                     THEN 2 ELSE 0)
      ]_vars

\* C9: for a cannot-link constraint whose endpoints A and B have different
\* labels, each endpoint is credited independently: the cluster of A gains
\* exactly 1 iff A's label is non-zero and one of the new cluster labels, and the
\* cluster of B gains exactly 1 iff B's label is non-zero and one of the new
\* cluster labels.
C9_CannotLinkCreditsEachEndpoint ==
    [][(/\ AtConstraint
        /\ index' = index + 1
        /\ constraints[index].type = "cannotLink"
        /\ LabelA # LabelB) =>
          \A l \in DOMAIN clusters :
             clusters'[l].NumConstraintsSatisfied =
                clusters[l].NumConstraintsSatisfied
                  + (IF l = LabelA /\ LabelA # 0 /\ LabelA \in newClusterLabels
                     THEN 1 ELSE 0)
                  + (IF l = LabelB /\ LabelB # 0 /\ LabelB \in newClusterLabels
                     THEN 1 ELSE 0)
      ]_vars

(***************************************************************************)
(* Properties of constructMst.                                             *)
(***************************************************************************)
Points == 0..(length - 1)

EdgeIndices == DOMAIN returned.edgeWeights

NonSelfEdges == {i \in EdgeIndices : returned.verticesA[i] # returned.verticesB[i]}

SelfEdgeIndices == {i \in EdgeIndices : returned.verticesA[i] = returned.verticesB[i]}

\* The points joined to the points of `seen` by edges of the index set E.
RECURSIVE ReachedBy(_, _)
ReachedBy(E, seen) ==
    LET more == {p \in Points : \E i \in E :
                    \/ returned.verticesA[i] \in seen /\ returned.verticesB[i] = p
                    \/ returned.verticesB[i] \in seen /\ returned.verticesA[i] = p}
    IN IF more \subseteq seen THEN seen ELSE ReachedBy(E, seen \cup more)

RECURSIVE SumOver(_, _)
SumOver(S, f) ==
    IF S = {} THEN 0
    ELSE LET x == CHOOSE y \in S : TRUE IN f[x] + SumOver(S \ {x}, f)

\* The spanning trees of the complete graph on 0..n-1, as sets of pairs <<a, b>>, a < b.
RECURSIVE Component(_, _)
Component(T, seen) ==
    LET more == {q \in UNION {{e[1], e[2]} : e \in T} :
                    \E e \in T : (e[1] \in seen /\ e[2] = q) \/ (e[2] \in seen /\ e[1] = q)}
    IN IF more \subseteq seen THEN seen ELSE Component(T, seen \cup more)

AllSpanningTrees ==
    UNION {{<<n, T>> : T \in {U \in SUBSET Pairs(n) :
                                /\ Cardinality(U) = n - 1
                                /\ Component(U, {0}) = 0..(n - 1)}}
           : n \in 2..MaxN}

SpanningTrees(n) == {x[2] : x \in {y \in AllSpanningTrees : y[1] = n}}

\* max(distances[a][b], coreDistances[a], coreDistances[b])
MutualReachabilityDistance(a, b) ==
    Max2(Max2(distances[a][b], coreDistances[a]), coreDistances[b])

TreeWeight(T) == SumOver(T, [e \in T |-> MutualReachabilityDistance(e[1], e[2])])

MstWeight == SumOver(NonSelfEdges, [i \in NonSelfEdges |-> returned.edgeWeights[i]])

Candidates == (Points \ attachedPoints) \cup {currentPoint}

Nearest ==
    {p \in Candidates :
        \A q \in Candidates : nearestMRDDistances[p] <= nearestMRDDistances[q]}

Selected == pc = "mstLoop" /\ numAttachedPoints > 1

\* C8, as stated: among the unattached points that share the smallest recorded
\* distance, the one attached next has the lowest point index.
C8_LowestIndexWins ==
    (Selected /\ Cardinality(Nearest) >= 2) =>
        \A p \in Nearest : currentPoint <= p

\* C8, amended: the point attached next holds the smallest recorded distance,
\* and among the unattached points that share it, it has the highest point
\* index (the last one met in the ascending scan).
C8_HighestIndexWins ==
    Selected =>
        /\ currentPoint \in Nearest
        /\ \A p \in Nearest : currentPoint >= p

C8_Witness ==
    /\ Selected
    /\ Cardinality(Nearest) >= 2
    /\ Cardinality(Candidates \ Nearest) >= 1
    /\ currentPoint > 0

=============================================================================
